---- MODULE Spec2Model ----
(***************************************************************************)
(* Poland air-quality pipeline.                                            *)
(*                                                                         *)
(*   Collector  (etl/01_Data_Scraping/data_scraper.py)                     *)
(*     safe_request, get_historical_data, run_scraper                      *)
(*   Aggregator (etl/Data_Transformation/etl_pipeline.py)                  *)
(*     load + year filter, city_stats, Wind_Bin / Temp_Bin,                *)
(*     classify_scenario, get_newyear_label                                *)
(*                                                                         *)
(* Three specifications share the variables:                               *)
(*   SpecRequest  one call of safe_request driven by arbitrary responses   *)
(*   SpecScraper  run_scraper over the configured cities                   *)
(*   SpecAgg      the aggregator script over an input CSV                  *)
(*                                                                         *)
(* Encoding of values.  A float that may be NaN (a JSON null, an empty     *)
(* resample bucket) is a sequence: <<>> is NaN, <<v>> is the number v and  *)
(* <<s, n>> is the mean s/n of n readings that sum to s.  A calendar day   *)
(* of the collector's range is its ordinal 1..MaxDay; the 'YYYY-MM-DD'     *)
(* string of a day is that ordinal, an hourly timestamp is <<day, hour>>.  *)
(***************************************************************************)
EXTENDS Integers, Sequences, FiniteSets, TLC

VARIABLES
    pc,          \* position of the running program
    \* ---- safe_request (one call) ----
    retries,     \* parameter retries
    wait_time,   \* parameter wait_time
    attempt,     \* number of requests.get calls made by the current call
    result,      \* value returned by the call
    hist,        \* responses received by the call, in order
    sleeps,      \* durations of the time.sleep calls made by the call
    \* ---- run_scraper / get_historical_data ----
    city,        \* index into CITIES of the city being processed
    w_data,      \* get_historical_data: w_data
    a_data,      \* get_historical_data: a_data
    df,          \* run_scraper: df returned by get_historical_data
    all_data,    \* run_scraper: all_data
    messages,    \* per-city result lines printed by get_historical_data
    lastEvent,   \* most recent external effect (HTTP GET or time.sleep)
    file,        \* rows of OUTPUT_FILENAME on disk
    writes,      \* number of to_csv calls made by run_scraper
    report,      \* final line printed by run_scraper
    \* ---- aggregator ----
    csv,         \* content of file_path on disk (input)
    adf,         \* the script's df
    city_stats,  \* pbi_ranking_cities.csv
    scenarios,   \* pbi_page2_scenarios_clean.csv
    new_year_stats  \* pbi_page3_newyear_ready.csv

reqVars == <<retries, wait_time, attempt, result, hist, sleeps>>
scrVars == <<city, w_data, a_data, df, all_data, messages, lastEvent, file, writes, report>>
aggVars == <<csv, adf, city_stats, scenarios, new_year_stats>>
vars == <<pc, reqVars, scrVars, aggVars>>

(***************************************************************************)
(* Bounds and program constants                                            *)
(***************************************************************************)
MaxRetries == 5          \* largest retries argument tried in SpecRequest
MaxCities == 2           \* number of entries of CITIES kept
MaxDay == 3              \* days in the collector's date range
HoursPerDay == 2         \* hourly readings per day served by the API
MaxRows == 2             \* rows of a labelling input CSV
RankCities == 11         \* cities of a ranking input CSV

DefaultRetries == 5      \* safe_request(url, retries=5, ...)
DefaultWaitTime == 10    \* safe_request(url, ..., wait_time=10)
OtherStatusWait == 2     \* time.sleep(2) of the "other status" branch
PauseBetween == 1        \* time.sleep(1) between the two fetches
PauseAfter == 2          \* time.sleep(2) after each city
StartYear == 2016        \* df['time'].dt.year >= 2016
SmogThreshold == 50      \* df['pm10'] > 50
TopN == 10               \* .head(10)

WaitTimes == {3, DefaultWaitTime}

NaN == <<>>
IsNaN(x) == x = <<>>

(***************************************************************************)
(* JSON bodies and HTTP responses                                          *)
(***************************************************************************)
None == [kind |-> "None", rows |-> <<>>]          \* Python None
EmptyJson == [kind |-> "empty", rows |-> <<>>]    \* {} : parses, falsy
ErrorJson == [kind |-> "error", rows |-> <<>>]    \* truthy object without 'daily' / 'hourly'
BadJson == [kind |-> "invalid", rows |-> <<>>]    \* body on which response.json() raises
NoBody == [kind |-> "nobody", rows |-> <<>>]      \* body of a response that is never parsed

\* `not x` of lines 87 and 95
Falsy(x) == x.kind \in {"None", "empty"}

Response(status, body) == [kind |-> "http", status |-> status, body |-> body]
TransportError == [kind |-> "exc", status |-> 0, body |-> NoBody]

FailStatuses == {404, 429, 500}

Responses(bodies) ==
    {Response(s, NoBody) : s \in FailStatuses}
        \cup {Response(200, b) : b \in bodies \cup {BadJson}}
        \cup {TransportError}

\* daily weather: days 1..last, temperature null on nullDay (0: none)
WeatherDaily(last, nullDay) ==
    [kind |-> "daily",
     rows |-> [d \in 1..last |->
                 [time |-> d,
                  temperature_2m_mean |-> IF d = nullDay THEN NaN ELSE <<d>>]]]

\* hourly air quality: HoursPerDay readings for every day of the range, except
\* that day `odd` (0: none) has no readings ("absent") or only null ones ("null")
AirHourly(odd, how) ==
    LET all == [k \in 1..(MaxDay * HoursPerDay) |->
                  LET d == ((k - 1) \div HoursPerDay) + 1
                      h == (k - 1) % HoursPerDay
                  IN [time |-> <<d, h>>,
                      pm10 |-> IF d = odd /\ how = "null" THEN NaN ELSE <<10 * (h + 1)>>]]
        keep(r) == ~(r.time[1] = odd /\ how = "absent")
    IN [kind |-> "hourly", rows |-> SelectSeq(all, keep)]

WeatherBodies ==
    {EmptyJson, ErrorJson}
        \cup {WeatherDaily(last, n) : last \in {1, MaxDay}, n \in {0, 1}}

AirBodies ==
    {EmptyJson, ErrorJson, AirHourly(0, "absent")}
        \cup {AirHourly(o, how) : o \in 1..MaxDay, how \in {"absent", "null"}}

RequestBodies == {EmptyJson, ErrorJson, WeatherDaily(1, 0)}

(***************************************************************************)
(* safe_request: one iteration of the retry loop on response resp.         *)
(* returns: the call returns in this iteration; value: what it returns;    *)
(* slept: the time.sleep made by the iteration (<<>>: none).               *)
(***************************************************************************)
\* variant: a sleep is also taken after the 200
safe_request_SleepAfter200(resp, wt) ==
    IF resp.kind = "exc" THEN [returns |-> FALSE, value |-> None, slept |-> <<wt>>]
    ELSE IF resp.status = 200
         THEN IF resp.body = BadJson
              THEN [returns |-> FALSE, value |-> None, slept |-> <<wt>>]
              ELSE [returns |-> TRUE, value |-> resp.body, slept |-> <<wt>>]
    ELSE IF resp.status = 429 THEN [returns |-> FALSE, value |-> None, slept |-> <<wt>>]
    ELSE IF resp.status >= 500 THEN [returns |-> FALSE, value |-> None, slept |-> <<wt>>]
    ELSE [returns |-> FALSE, value |-> None, slept |-> <<OtherStatusWait>>]

\* variant: a status that is neither 200, 429 nor >= 500 is fatal
safe_request_OtherFatal(resp, wt) ==
    IF resp.kind = "exc" THEN [returns |-> FALSE, value |-> None, slept |-> <<wt>>]
    ELSE IF resp.status = 200
         THEN IF resp.body = BadJson
              THEN [returns |-> FALSE, value |-> None, slept |-> <<wt>>]
              ELSE [returns |-> TRUE, value |-> resp.body, slept |-> <<>>]
    ELSE IF resp.status = 429 THEN [returns |-> FALSE, value |-> None, slept |-> <<wt>>]
    ELSE IF resp.status >= 500 THEN [returns |-> FALSE, value |-> None, slept |-> <<wt>>]
    ELSE [returns |-> TRUE, value |-> None, slept |-> <<>>]

safe_request(resp, wt) ==
    IF resp.kind = "exc"
    THEN \* except Exception: sleep(wait_time)
         [returns |-> FALSE, value |-> None, slept |-> <<wt>>]
    ELSE IF resp.status = 200
         THEN IF resp.body = BadJson
              THEN \* response.json() raises inside the try: same except branch
                   [returns |-> FALSE, value |-> None, slept |-> <<wt>>]
              ELSE [returns |-> TRUE, value |-> resp.body, slept |-> <<>>]
    ELSE IF resp.status = 429 THEN [returns |-> FALSE, value |-> None, slept |-> <<wt>>]
    ELSE IF resp.status >= 500 THEN [returns |-> FALSE, value |-> None, slept |-> <<wt>>]
    ELSE [returns |-> FALSE, value |-> None, slept |-> <<OtherStatusWait>>]

(***************************************************************************)
(* SpecRequest: one call safe_request(url, retries, wait_time)             *)
(***************************************************************************)
IdleScraper ==
    /\ city = 0 /\ w_data = None /\ a_data = None /\ df = <<>>
    /\ all_data = <<>> /\ messages = <<>> /\ lastEvent = [type |-> "none", secs |-> 0]
    /\ file = <<>> /\ writes = 0 /\ report = "none"

IdleAgg ==
    /\ csv = [exists |-> FALSE, rows |-> {}] /\ adf = {}
    /\ city_stats = <<>> /\ scenarios = {} /\ new_year_stats = {}

IdleRequest ==
    /\ result = None /\ hist = <<>> /\ sleeps = <<>>

InitRequest ==
    /\ pc = "loop"
    /\ retries \in 0..MaxRetries
    /\ wait_time \in WaitTimes
    /\ attempt = 0
    /\ IdleRequest /\ IdleScraper /\ IdleAgg

\* one pass through the body of `for attempt in range(retries)`
Attempt(resp) ==
    /\ pc = "loop"
    /\ attempt < retries
    /\ LET r == safe_request(resp, wait_time)
       IN /\ attempt' = attempt + 1
          /\ hist' = Append(hist, resp)
          /\ sleeps' = sleeps \o r.slept
          /\ result' = IF r.returns THEN r.value ELSE result
          /\ pc' = IF r.returns THEN "returned" ELSE "loop"
    /\ UNCHANGED <<retries, wait_time, scrVars, aggVars>>

\* range(retries) is exhausted: return None
Exhausted ==
    /\ pc = "loop"
    /\ attempt >= retries
    /\ result' = None
    /\ pc' = "returned"
    /\ UNCHANGED <<retries, wait_time, attempt, hist, sleeps, scrVars, aggVars>>

NextRequest == (\E resp \in Responses(RequestBodies) : Attempt(resp)) \/ Exhausted

SpecRequest == InitRequest /\ [][NextRequest]_vars

\* the scheduler runs the loop: a call that can take a step takes it
SpecRequestFair == SpecRequest /\ WF_vars(NextRequest)

Is200(resp) == resp.kind = "http" /\ resp.status = 200
Parsed200(resp) == Is200(resp) /\ resp.body # BadJson
First200(k) == k \in 1..Len(hist) /\ Is200(hist[k]) /\ \A j \in 1..(k - 1) : ~Is200(hist[j])
FirstParsed200(k) ==
    k \in 1..Len(hist) /\ Parsed200(hist[k]) /\ \A j \in 1..(k - 1) : ~Parsed200(hist[j])

\* C1 as stated: when the call has returned and the first HTTP 200 of the response
\* sequence came at attempt k, the call returned that response's payload, made
\* exactly k requests and slept exactly k-1 times.
C1_First200Returns ==
    pc = "returned" =>
        \A k \in 1..Len(hist) :
            First200(k) => result = hist[k].body /\ attempt = k /\ Len(sleeps) = k - 1

\* C1 amended: the same for the first HTTP 200 whose body parses as JSON. A 200
\* whose body does not parse is a failed attempt like any other: it is followed
\* by one sleep and the loop goes on. While the loop runs, no parsed 200 has been
\* received and every attempt made so far was followed by exactly one sleep.
C1_FirstParsed200Returns ==
    /\ pc = "returned" =>
          \A k \in 1..Len(hist) :
              FirstParsed200(k) =>
                  result = hist[k].body /\ attempt = k /\ Len(sleeps) = k - 1
    /\ pc = "loop" =>
          /\ \A k \in 1..Len(hist) : ~Parsed200(hist[k])
          /\ Len(sleeps) = attempt

\* C1 witness: responses [500, 500, 200] with retries = 5 gave the payload
\* after 3 requests and 2 sleeps.
C1_Witness ==
    /\ pc = "returned" /\ retries = 5 /\ Len(hist) = 3
    /\ hist[1].status = 500 /\ hist[2].status = 500 /\ Parsed200(hist[3])
    /\ result = hist[3].body /\ attempt = 3 /\ Len(sleeps) = 2

C2_Inv ==
    /\ pc \in {"loop", "returned"}
    /\ attempt <= retries
    /\ Len(hist) = attempt
    /\ (pc = "returned" /\ \A k \in 1..Len(hist) : ~Is200(hist[k])) =>
           attempt = retries /\ result = None

\* C2: the call always returns (it never raises and never loops for ever), no
\* outcome consumes more or less than one attempt, and when none of the responses
\* was an HTTP 200 it has made exactly `retries` requests and returns None.
C2_NoDataAfterRetries == [](C2_Inv) /\ <>(pc = "returned")

\* C2 witness: five failures of all four kinds with retries = 5 ended in None.
C2_Witness ==
    /\ pc = "returned" /\ retries = 5 /\ attempt = 5 /\ result = None
    /\ \A k \in 1..5 : ~Is200(hist[k])
    /\ \E k \in 1..5 : hist[k].kind = "exc"
    /\ \E k \in 1..5 : hist[k].status = 404
    /\ \E k \in 1..5 : hist[k].status = 429
    /\ \E k \in 1..5 : hist[k].status = 500

(***************************************************************************)
(* Collector: get_historical_data and run_scraper                          *)
(***************************************************************************)
CITIES ==
    SubSeq(<<"Warszawa", "Krakow", "Lodz", "Wroclaw", "Poznan", "Gdansk", "Szczecin",
             "Bydgoszcz", "Lublin", "Bialystok", "Katowice", "Gdynia", "Czestochowa",
             "Radom", "Torun", "Sosnowiec", "Kielce", "Rzeszow", "Gliwice", "Zabrze">>,
           1, MaxCities)

Sleep(secs) == [type |-> "sleep", secs |-> secs]
Get == [type |-> "get", secs |-> 0]

RECURSIVE SumPm10(_)
SumPm10(rows) == IF rows = <<>> THEN 0 ELSE Head(rows).pm10[1] + SumPm10(Tail(rows))

\* .mean() of one bucket: NaN readings are skipped, an empty bucket gives NaN
mean(rows) ==
    LET vals == SelectSeq(rows, LAMBDA r : ~IsNaN(r.pm10))
    IN IF vals = <<>> THEN NaN ELSE <<SumPm10(vals), Len(vals)>>

\* .dt.strftime('%Y-%m-%d') of a timestamp
strftime(ts) == ts[1]

\* set_index('time').resample('D').mean().reset_index(), then strftime: one row
\* for every calendar day from the first to the last timestamp
resample(hourly) ==
    IF hourly = <<>> THEN <<>>
    ELSE LET days == {hourly[k].time[1] : k \in 1..Len(hourly)}
             lo == CHOOSE d \in days : \A e \in days : d <= e
             hi == CHOOSE d \in days : \A e \in days : e <= d
         IN [j \in 1..(hi - lo + 1) |->
               LET bucket == <<lo + j - 1, 0>>
               IN [time |-> strftime(bucket),
                   pm10 |-> mean(SelectSeq(hourly, LAMBDA r : r.time[1] = bucket[1]))]]

Joined(l, r) ==
    [time |-> l.time, temperature_2m_mean |-> l.temperature_2m_mean, pm10 |-> r.pm10]

RECURSIVE JoinRow(_, _)
JoinRow(l, right) ==
    IF right = <<>> THEN <<>>
    ELSE (IF Head(right).time = l.time THEN <<Joined(l, Head(right))>> ELSE <<>>)
             \o JoinRow(l, Tail(right))

\* variant: how='left', a left row without a match is kept with NaN on the right
RECURSIVE merge_Left(_, _)
merge_Left(left, right) ==
    IF left = <<>> THEN <<>>
    ELSE (IF JoinRow(Head(left), right) = <<>>
          THEN <<Joined(Head(left), [pm10 |-> NaN])>>
          ELSE JoinRow(Head(left), right))
             \o merge_Left(Tail(left), right)

\* pd.merge(left, right, on='time'): inner join, in the order of the left rows
RECURSIVE merge(_, _)
merge(left, right) ==
    IF left = <<>> THEN <<>>
    ELSE JoinRow(Head(left), right) \o merge(Tail(left), right)

WithCity(rows, name) ==
    [k \in 1..Len(rows) |->
        [time |-> rows[k].time, temperature_2m_mean |-> rows[k].temperature_2m_mean,
         pm10 |-> rows[k].pm10, city |-> name]]

\* the try block of get_historical_data, entered with truthy w and a
process_data(name, w, a) ==
    IF w.kind # "daily"
    THEN \* w_data['daily'] raises KeyError, caught by except Exception
         [df |-> <<>>, msg |-> "Data Processing Error"]
    ELSE IF a.kind # "hourly"
    THEN [df |-> <<>>, msg |-> "Missing hourly data"]
    ELSE [df |-> WithCity(merge(w.rows, resample(a.rows)), name), msg |-> "Success"]

\* variant: the 2 s pause is taken only for a city that gave rows
run_scraper_pause_OnSuccess(d) == IF d = <<>> THEN <<>> ELSE <<PauseAfter>>

\* the sleeps run_scraper makes after get_historical_data returned d
run_scraper_pause(d) == <<PauseAfter>>

\* variant: the run stops at the first city that gave no rows
loop_continues_Break(c, d) == c < Len(CITIES) /\ d # <<>>

\* for ... in enumerate(CITIES.items(), 1): is there a next city
loop_continues(c, d) == c < Len(CITIES)

RECURSIVE concat(_)
concat(frames) == IF frames = <<>> THEN <<>> ELSE Head(frames) \o concat(Tail(frames))

\* variant: the file is written whether or not any city gave rows
run_scraper_export_Always(frames) ==
    [write |-> TRUE, rows |-> concat(frames), report |-> "PROCESS COMPLETED"]

\* `if all_data:` ... to_csv / else: print failure
run_scraper_export(frames) ==
    IF frames # <<>>
    THEN [write |-> TRUE, rows |-> concat(frames), report |-> "PROCESS COMPLETED"]
    ELSE [write |-> FALSE, rows |-> <<>>, report |-> "Failed to fetch data"]

InitScraper ==
    /\ pc = "weather"
    /\ retries = DefaultRetries
    /\ wait_time = DefaultWaitTime
    /\ attempt = 0
    /\ city = 1 /\ w_data = None /\ a_data = None /\ df = <<>>
    /\ all_data = <<>> /\ messages = <<>> /\ lastEvent = [type |-> "none", secs |-> 0]
    /\ file = <<>> /\ writes = 0 /\ report = "none"
    /\ IdleRequest /\ IdleAgg

\* get_historical_data returns d after printing msg
Return(d, msg) ==
    /\ df' = d
    /\ messages' = Append(messages, [city |-> CITIES[city], msg |-> msg, records |-> Len(d)])
    /\ pc' = "collect"

EventOf(r) == IF r.slept = <<>> THEN Get ELSE Sleep(r.slept[1])

\* one iteration of safe_request(weather_url); on return, lines 87-91
WeatherAttempt(resp) ==
    /\ pc = "weather"
    /\ attempt < retries
    /\ LET r == safe_request(resp, wait_time)
       IN IF ~r.returns
          THEN /\ attempt' = attempt + 1
               /\ lastEvent' = EventOf(r)
               /\ UNCHANGED <<pc, w_data, df, messages>>
          ELSE /\ w_data' = r.value
               /\ IF Falsy(r.value)
                  THEN /\ Return(<<>>, "Weather API Error")
                       /\ attempt' = attempt + 1
                       /\ lastEvent' = EventOf(r)
                  ELSE \* time.sleep(1), then safe_request(air_url) starts
                       /\ lastEvent' = Sleep(PauseBetween)
                       /\ pc' = "air"
                       /\ attempt' = 0
                       /\ UNCHANGED <<df, messages>>
    /\ UNCHANGED <<retries, wait_time, result, hist, sleeps,
                   city, a_data, all_data, file, writes, report, aggVars>>

\* safe_request(weather_url) ran out of attempts: None, lines 87-89
WeatherExhausted ==
    /\ pc = "weather"
    /\ attempt >= retries
    /\ w_data' = None
    /\ Return(<<>>, "Weather API Error")
    /\ UNCHANGED <<reqVars, city, a_data, all_data, lastEvent, file, writes, report, aggVars>>

\* one iteration of safe_request(air_url); on return, lines 95-97
AirAttempt(resp) ==
    /\ pc = "air"
    /\ attempt < retries
    /\ LET r == safe_request(resp, wait_time)
       IN /\ attempt' = attempt + 1
          /\ lastEvent' = EventOf(r)
          /\ IF ~r.returns
             THEN UNCHANGED <<pc, a_data, df, messages>>
             ELSE /\ a_data' = r.value
                  /\ IF Falsy(r.value)
                     THEN Return(<<>>, "Air Quality API Error")
                     ELSE pc' = "process" /\ UNCHANGED <<df, messages>>
    /\ UNCHANGED <<retries, wait_time, result, hist, sleeps,
                   city, w_data, all_data, file, writes, report, aggVars>>

AirExhausted ==
    /\ pc = "air"
    /\ attempt >= retries
    /\ a_data' = None
    /\ Return(<<>>, "Air Quality API Error")
    /\ UNCHANGED <<reqVars, city, w_data, all_data, lastEvent, file, writes, report, aggVars>>

\* lines 99-124
Process ==
    /\ pc = "process"
    /\ LET out == process_data(CITIES[city], w_data, a_data)
       IN Return(out.df, out.msg)
    /\ UNCHANGED <<reqVars, city, w_data, a_data, all_data, lastEvent, file, writes,
                   report, aggVars>>

\* run_scraper lines 135-139 and the step of the for loop
Collect ==
    /\ pc = "collect"
    /\ all_data' = IF df # <<>> THEN Append(all_data, df) ELSE all_data
    /\ lastEvent' = IF run_scraper_pause(df) = <<>> THEN lastEvent
                    ELSE Sleep(run_scraper_pause(df)[1])
    /\ IF loop_continues(city, df)
       THEN /\ city' = city + 1
            /\ pc' = "weather"
            /\ attempt' = 0
            /\ w_data' = None /\ a_data' = None /\ df' = <<>>
       ELSE /\ pc' = "export"
            /\ UNCHANGED <<city, attempt, w_data, a_data, df>>
    /\ UNCHANGED <<retries, wait_time, result, hist, sleeps, messages, file, writes,
                   report, aggVars>>

\* run_scraper lines 141-153
Export ==
    /\ pc = "export"
    /\ LET out == run_scraper_export(all_data)
       IN /\ file' = IF out.write THEN out.rows ELSE file
          /\ writes' = IF out.write THEN writes + 1 ELSE writes
          /\ report' = out.report
    /\ pc' = "done"
    /\ UNCHANGED <<reqVars, city, w_data, a_data, df, all_data, messages, lastEvent, aggVars>>

NextScraper ==
    \/ \E resp \in Responses(WeatherBodies) : WeatherAttempt(resp)
    \/ WeatherExhausted
    \/ \E resp \in Responses(AirBodies) : AirAttempt(resp)
    \/ AirExhausted
    \/ Process
    \/ Collect
    \/ Export

SpecScraper == InitScraper /\ [][NextScraper]_vars

Last(seq) == seq[Len(seq)]
Times(rows) == {rows[k].time : k \in 1..Len(rows)}
RowsOf(rows, name) == SelectSeq(rows, LAMBDA r : r.city = name)
Failure(m) == m.msg # "Success"

\* C3: a city whose weather fetch or air-quality fetch gave no data, whose
\* air-quality payload lacks 'hourly', or whose processing raised, returns no
\* rows and adds nothing to all_data; the run goes on: cities are reported in
\* configuration order, and when the loop is over every city has been attempted.
C3_FailureSkipsCityOnly ==
    /\ pc \in {"weather", "air", "process", "collect", "export", "done"}
    /\ \A k \in 1..Len(messages) : messages[k].city = CITIES[k]
    /\ Len(messages) = (IF pc \in {"collect", "export", "done"} THEN city ELSE city - 1)
    /\ pc \in {"export", "done"} => Len(messages) = Len(CITIES)
    /\ pc = "collect" =>
          /\ Falsy(w_data) => Last(messages).msg = "Weather API Error"
          /\ (~Falsy(w_data) /\ Falsy(a_data)) => Last(messages).msg = "Air Quality API Error"
          /\ (~Falsy(w_data) /\ ~Falsy(a_data) /\ w_data.kind # "daily") =>
                 Last(messages).msg = "Data Processing Error"
          /\ (w_data.kind = "daily" /\ a_data.kind = "error") =>
                 Last(messages).msg = "Missing hourly data"
          /\ Failure(Last(messages)) => df = <<>>
    /\ \A k \in 1..Len(messages) :
          Failure(messages[k]) =>
              /\ \A f \in 1..Len(all_data) : RowsOf(all_data[f], CITIES[k]) = <<>>
              /\ RowsOf(file, CITIES[k]) = <<>>

\* C3 witness: the first city failed, a later city was fetched and gave rows, and
\* the run ended.
C3_Witness ==
    /\ pc = "done" /\ Len(messages) = Len(CITIES)
    /\ messages[1].msg = "Missing hourly data"
    /\ messages[2].msg = "Success" /\ RowsOf(file, CITIES[2]) # <<>>

Succeeded(k) == messages[k].msg = "Success"
GaveRows(k) == messages[k].msg = "Success" /\ messages[k].records > 0

\* C4 as stated: at the end of the run the file has been written if and only if
\* some city succeeded.
C4_WrittenIffSomeSuccess ==
    pc = "done" => (writes = 1 <=> \E k \in 1..Len(messages) : Succeeded(k))

\* C4 amended: the file is written if and only if some city returned at least one
\* merged row (a city whose two fetches succeeded but whose merge is empty is
\* reported as a success with 0 records and is not kept). With no such city the
\* run reports failure, writes nothing and ends normally; otherwise the file is
\* written exactly once, after the last city, and holds the rows of the cities
\* that returned rows, city after city in configuration order.
C4_WrittenIffSomeRows ==
    /\ pc # "done" => writes = 0 /\ file = <<>> /\ report = "none"
    /\ pc = "done" =>
          /\ Len(messages) = Len(CITIES)
          /\ writes = (IF \E k \in 1..Len(messages) : GaveRows(k) THEN 1 ELSE 0)
          /\ writes = 0 => file = <<>> /\ report = "Failed to fetch data"
          /\ writes = 1 => report = "PROCESS COMPLETED" /\ file = concat(all_data)
          /\ \A k \in 1..Len(messages) :
                Len(RowsOf(file, CITIES[k])) =
                    (IF Succeeded(k) THEN messages[k].records ELSE 0)
          /\ \A i, j \in 1..Len(file) :
                (i < j) =>
                    \E a, b \in 1..Len(CITIES) :
                        a <= b /\ file[i].city = CITIES[a] /\ file[j].city = CITIES[b]

\* C4 witness: one city failed, another returned rows, and the file holds them.
C4_Witness ==
    /\ pc = "done" /\ writes = 1 /\ file # <<>>
    /\ \E k \in 1..Len(messages) : Failure(messages[k])

\* C5: the first air-quality request of a city directly follows a 1 s sleep, and
\* that sleep is only ever taken there; the first request of every later city,
\* and the export, directly follow the 2 s sleep that ends the previous city,
\* whether that city gave rows or not.
C5_Pacing ==
    /\ (pc = "air" /\ attempt = 0) => lastEvent = Sleep(1)
    /\ (pc = "weather" /\ attempt = 0 /\ city > 1) => lastEvent = Sleep(2)
    /\ pc = "export" => lastEvent = Sleep(2)
    /\ lastEvent = Sleep(1) => pc = "air" /\ attempt = 0

\* C5 witness: the previous city failed and the next city is about to issue its
\* first request, right after the 2 s sleep.
C5_Witness ==
    /\ pc = "weather" /\ attempt = 0 /\ city = 2
    /\ Failure(messages[1]) /\ lastEvent = Sleep(2)

\* C6: when both fetches of a city succeeded and the table was merged, its row
\* count is the number of dates present both in the daily weather series and in
\* the resampled daily air-quality series, no date occurs twice in it, and every
\* row carries the city; the written file has one row per (city, date).
C6_RowCountIsIntersection ==
    /\ (pc = "collect" /\ Last(messages).msg = "Success") =>
          /\ Len(df) = Cardinality(Times(w_data.rows) \cap Times(resample(a_data.rows)))
          /\ Times(df) = Times(w_data.rows) \cap Times(resample(a_data.rows))
          /\ \A i, j \in 1..Len(df) : df[i].time = df[j].time => i = j
          /\ \A i \in 1..Len(df) : df[i].city = CITIES[city]
    /\ \A i, j \in 1..Len(file) :
          (file[i].city = file[j].city /\ file[i].time = file[j].time) => i = j

\* C6 witness: the weather series covers days the air-quality series lacks, and
\* the merged table is non-empty and shorter than the weather series.
C6_Witness ==
    /\ pc = "collect" /\ Last(messages).msg = "Success"
    /\ df # <<>> /\ Len(df) < Len(w_data.rows)
    /\ Times(resample(a_data.rows)) \ Times(w_data.rows) = {}

\* C7 as stated: no row of a merged per-city table has a missing weather value
\* or a missing air-quality value.
C7_NoMissingValues ==
    pc = "collect" =>
        \A i \in 1..Len(df) : ~IsNaN(df[i].temperature_2m_mean) /\ ~IsNaN(df[i].pm10)

(***************************************************************************)
(* Aggregator: etl_pipeline.py                                             *)
(* A CSV row is [city, time, temperature_2m_mean, wind_speed_10m_max,      *)
(* pm10]; time is <<year, month, day>>; a city is its rank in name order.  *)
(***************************************************************************)
Lt(x, v) == ~IsNaN(x) /\ x[1] < v      \* x < v, False on NaN
Gt(x, v) == ~IsNaN(x) /\ x[1] > v      \* x > v, False on NaN

CsvRow(c, date, t, w, pm) ==
    [city |-> c, time |-> date, temperature_2m_mean |-> t, wind_speed_10m_max |-> w,
     pm10 |-> pm]

Temps == <<NaN, <<0>>, <<4>>, <<5>>, <<15>>, <<16>>, <<20>>>>
Winds == <<NaN, <<5>>, <<9>>, <<10>>, <<20>>, <<21>>, <<25>>>>
Dates ==
    {<<2015, 12, 31>>, <<2019, 12, 28>>, <<2019, 12, 29>>, <<2019, 12, 30>>,
     <<2019, 12, 31>>, <<2020, 1, 1>>, <<2020, 1, 2>>, <<2020, 1, 3>>, <<2020, 1, 4>>,
     <<2020, 2, 29>>, <<2020, 3, 1>>}

\* rows that differ in their date, and rows that differ in their weather
RowPool ==
    {CsvRow(1, d, <<0>>, <<5>>, pm) : d \in Dates, pm \in {<<40>>, <<60>>}}
        \cup {CsvRow(1, <<2020, 5 + i, j>>, Temps[i], Winds[j], <<60>>) :
                 i \in 1..Len(Temps), j \in 1..Len(Winds)}

\* the sets of at most k rows of the pool
RECURSIVE UpTo(_)
UpTo(k) ==
    IF k = 0 THEN {{}}
    ELSE LET less == UpTo(k - 1) IN less \cup {rows \cup {r} : rows \in less, r \in RowPool}

LabelCsvs == {rows \in UpTo(MaxRows) : \A r1, r2 \in rows : r1.time = r2.time => r1 = r2}

\* cities 1..n have two smog days, or one if in `once`; every city of the file
\* has a day at exactly the threshold
RankRows(n, once) ==
    {CsvRow(c, <<2020, 6, 1>>, <<10>>, <<15>>, <<51>>) : c \in 1..n}
        \cup {CsvRow(c, <<2020, 6, 2>>, <<10>>, <<15>>, <<60>>) : c \in (1..n) \ once}
        \cup {CsvRow(c, <<2020, 6, 3>>, <<10>>, <<15>>, <<50>>) : c \in 1..RankCities}

RankCsvs == UNION {{RankRows(n, once) : once \in SUBSET (1..n)} : n \in 1..RankCities}

\* pd.to_datetime, the year filter and the derived columns (lines 15-26)
load(rows) ==
    {[city |-> r.city, time |-> r.time, temperature_2m_mean |-> r.temperature_2m_mean,
      wind_speed_10m_max |-> r.wind_speed_10m_max, pm10 |-> r.pm10,
      Year |-> r.time[1], Month |-> r.time[2],
      Scenario |-> "", NewYear_Label |-> ""] :
        r \in {q \in rows : q.time[1] >= StartYear}}

RECURSIVE SumOf(_)
SumOf(rows) ==
    IF rows = {} THEN 0
    ELSE LET r == CHOOSE q \in rows : TRUE IN r.pm10[1] + SumOf(rows \ {r})

\* ['pm10'].mean() of a group: NaN is skipped
pm10_mean(rows) ==
    LET vals == {r \in rows : ~IsNaN(r.pm10)}
    IN IF vals = {} THEN NaN ELSE <<SumOf(vals), Cardinality(vals)>>

smog_days(rows, c) == Cardinality({r \in rows : r.city = c /\ Gt(r.pm10, SmogThreshold)})

\* sort_values('Dni_Smogowe', ascending=False): the order of equal counts is not
\* fixed by the sort; asc chooses between the two stable orders
RECURSIVE sort_values(_, _, _)
sort_values(rows, cs, asc) ==
    IF cs = {} THEN <<>>
    ELSE LET first == CHOOSE c \in cs :
                 \A e \in cs :
                     \/ smog_days(rows, c) > smog_days(rows, e)
                     \/ /\ smog_days(rows, c) = smog_days(rows, e)
                        /\ IF asc THEN c <= e ELSE c >= e
         IN <<[city |-> first, Dni_Smogowe |-> smog_days(rows, first)]>>
                \o sort_values(rows, cs \ {first}, asc)

head(seq, n) == SubSeq(seq, 1, IF Len(seq) < n THEN Len(seq) ELSE n)

\* variant: days at exactly the threshold are counted
rank_cities_Ge(rows, asc) ==
    LET over == {r \in rows : ~IsNaN(r.pm10) /\ r.pm10[1] >= SmogThreshold}
        cs == {r.city : r \in over}
        count(c) == Cardinality({r \in over : r.city = c})
        RECURSIVE srt(_)
        srt(rest) ==
            IF rest = {} THEN <<>>
            ELSE LET first == CHOOSE c \in rest :
                         \A e \in rest :
                             count(c) > count(e) \/ (count(c) = count(e) /\ c <= e)
                 IN <<[city |-> first, Dni_Smogowe |-> count(first)]>> \o srt(rest \ {first})
    IN head(srt(cs), TopN)

\* lines 49-50: df[df['pm10'] > 50].groupby('city').size(), sorted, .head(10)
rank_cities(rows, asc) ==
    LET over == {r \in rows : Gt(r.pm10, SmogThreshold)}
    IN head(sort_values(over, {r.city : r \in over}, asc), TopN)

\* variant: the cold tests use <= 5
classify_scenario_Le(row) ==
    LET t == row.temperature_2m_mean
        w == row.wind_speed_10m_max
    IN IF ~IsNaN(t) /\ t[1] <= 5 /\ Lt(w, 10) THEN "1. ZIMNO I BEZWIETRZNIE"
       ELSE IF ~IsNaN(t) /\ t[1] <= 5 /\ Gt(w, 20) THEN "2. ZIMNO Z WIATREM"
       ELSE IF Gt(t, 15) THEN "3. LATO"
       ELSE "4. INNE"

classify_scenario(row) ==
    LET t == row.temperature_2m_mean
        w == row.wind_speed_10m_max
    IN IF Lt(t, 5) /\ Lt(w, 10) THEN "1. ZIMNO I BEZWIETRZNIE"
       ELSE IF Lt(t, 5) /\ Gt(w, 20) THEN "2. ZIMNO Z WIATREM"
       ELSE IF Gt(t, 15) THEN "3. LATO"
       ELSE "4. INNE"

\* variant: the window is tested on the day of the month alone
get_newyear_label_DayOnly(row) ==
    LET d == row.time[3]
    IN IF d = 29 THEN "1. 29 Grudnia"
       ELSE IF d = 30 THEN "2. 30 Grudnia"
       ELSE IF d = 31 THEN "3. SYLWESTER"
       ELSE IF d = 1 THEN "4. NOWY ROK"
       ELSE IF d = 2 THEN "5. 2 Stycznia"
       ELSE IF d = 3 THEN "6. 3 Stycznia"
       ELSE "None"

get_newyear_label(row) ==
    LET m == row.Month
        d == row.time[3]
    IN IF m = 12 /\ d = 29 THEN "1. 29 Grudnia"
       ELSE IF m = 12 /\ d = 30 THEN "2. 30 Grudnia"
       ELSE IF m = 12 /\ d = 31 THEN "3. SYLWESTER"
       ELSE IF m = 1 /\ d = 1 THEN "4. NOWY ROK"
       ELSE IF m = 1 /\ d = 2 THEN "5. 2 Stycznia"
       ELSE IF m = 1 /\ d = 3 THEN "6. 3 Stycznia"
       ELSE "None"

WithScenario(r, label) ==
    [city |-> r.city, time |-> r.time, temperature_2m_mean |-> r.temperature_2m_mean,
     wind_speed_10m_max |-> r.wind_speed_10m_max, pm10 |-> r.pm10,
     Year |-> r.Year, Month |-> r.Month,
     Scenario |-> label, NewYear_Label |-> r.NewYear_Label]

WithNewYear(r, label) ==
    [city |-> r.city, time |-> r.time, temperature_2m_mean |-> r.temperature_2m_mean,
     wind_speed_10m_max |-> r.wind_speed_10m_max, pm10 |-> r.pm10,
     Year |-> r.Year, Month |-> r.Month,
     Scenario |-> r.Scenario, NewYear_Label |-> label]

InitAgg ==
    /\ pc = "agg_load"
    /\ csv \in {[exists |-> FALSE, rows |-> {}]}
                 \cup {[exists |-> TRUE, rows |-> rows] : rows \in LabelCsvs \cup RankCsvs}
    /\ adf = {} /\ city_stats = <<>> /\ scenarios = {} /\ new_year_stats = {}
    /\ retries = DefaultRetries /\ wait_time = DefaultWaitTime /\ attempt = 0
    /\ IdleRequest /\ IdleScraper

\* lines 11-26
Load ==
    /\ pc = "agg_load"
    /\ IF csv.exists
       THEN adf' = load(csv.rows) /\ pc' = "agg_rank"
       ELSE \* raise FileNotFoundError
            adf' = adf /\ pc' = "agg_crashed"
    /\ UNCHANGED <<reqVars, scrVars, csv, city_stats, scenarios, new_year_stats>>

\* lines 49-51
Ranking ==
    /\ pc = "agg_rank"
    /\ \E asc \in BOOLEAN : city_stats' = rank_cities(adf, asc)
    /\ pc' = "agg_bins"
    /\ UNCHANGED <<reqVars, scrVars, csv, adf, scenarios, new_year_stats>>

\* lines 59 and 67: .round().astype(int) raises on a NaN
Bins ==
    /\ pc = "agg_bins"
    /\ pc' = IF \E r \in adf : IsNaN(r.wind_speed_10m_max) \/ IsNaN(r.temperature_2m_mean)
             THEN "agg_crashed" ELSE "agg_scenario"
    /\ UNCHANGED <<reqVars, scrVars, aggVars>>

\* lines 93-96
ScenarioDuel ==
    /\ pc = "agg_scenario"
    /\ LET labelled == {WithScenario(r, classify_scenario(r)) : r \in adf}
           groups == {r.Scenario : r \in labelled}
       IN /\ adf' = labelled
          /\ scenarios' =
                {[Scenario |-> g, pm10 |-> pm10_mean({r \in labelled : r.Scenario = g})] :
                    g \in groups \ {"4. INNE"}}
    /\ pc' = "agg_newyear"
    /\ UNCHANGED <<reqVars, scrVars, csv, city_stats, new_year_stats>>

\* lines 121-123
NewYear ==
    /\ pc = "agg_newyear"
    /\ LET labelled == {WithNewYear(r, get_newyear_label(r)) : r \in adf}
           kept == {r \in labelled : r.NewYear_Label # "None"}
       IN /\ adf' = labelled
          /\ new_year_stats' =
                {[NewYear_Label |-> g, pm10 |-> pm10_mean({r \in kept : r.NewYear_Label = g})] :
                    g \in {r.NewYear_Label : r \in kept}}
    /\ pc' = "agg_done"
    /\ UNCHANGED <<reqVars, scrVars, csv, city_stats, scenarios>>

NextAgg == Load \/ Ranking \/ Bins \/ ScenarioDuel \/ NewYear

SpecAgg == InitAgg /\ [][NextAgg]_vars

Labels == {"1. ZIMNO I BEZWIETRZNIE", "2. ZIMNO Z WIATREM", "3. LATO", "4. INNE"}
Classified == pc \in {"agg_newyear", "agg_done"}
T(r) == r.temperature_2m_mean[1]
W(r) == r.wind_speed_10m_max[1]

\* C8: every row gets exactly one of the four labels: cold & calm iff t < 5 and
\* w < 10; cold & windy iff t < 5 and w > 20; summer iff neither of these and
\* t > 15; other iff none of the three. (0,5) is cold & calm, (0,25) cold & windy,
\* (20,25) summer. The scenario summary has one line per label borne by a row,
\* except "other", which never appears in it.
C8_ScenarioFirstMatch ==
    Classified =>
        /\ \A r \in adf :
              /\ r.Scenario \in Labels
              /\ r.Scenario = "1. ZIMNO I BEZWIETRZNIE" <=> (T(r) < 5 /\ W(r) < 10)
              /\ r.Scenario = "2. ZIMNO Z WIATREM" <=> (T(r) < 5 /\ W(r) > 20)
              /\ r.Scenario = "3. LATO" <=> (~(T(r) < 5 /\ (W(r) < 10 \/ W(r) > 20)) /\ T(r) > 15)
              /\ r.Scenario = "4. INNE" <=>
                     ~((T(r) < 5 /\ (W(r) < 10 \/ W(r) > 20)) \/ T(r) > 15)
              /\ (T(r) = 0 /\ W(r) = 5) => r.Scenario = "1. ZIMNO I BEZWIETRZNIE"
              /\ (T(r) = 0 /\ W(r) = 25) => r.Scenario = "2. ZIMNO Z WIATREM"
              /\ (T(r) = 20 /\ W(r) = 25) => r.Scenario = "3. LATO"
        /\ {s.Scenario : s \in scenarios} = {r.Scenario : r \in adf} \ {"4. INNE"}
        /\ \A s \in scenarios : s.pm10 = pm10_mean({r \in adf : r.Scenario = s.Scenario})

\* C8 witness: a hot windy row was labelled summer, a row at exactly 5 degrees in
\* still air was labelled other, and only the former is in the summary.
C8_Witness ==
    /\ pc = "agg_done"
    /\ \E r \in adf : T(r) = 20 /\ W(r) = 25 /\ r.Scenario = "3. LATO"
    /\ \E r \in adf : T(r) = 5 /\ W(r) = 5 /\ r.Scenario = "4. INNE"
    /\ {s.Scenario : s \in scenarios} = {"3. LATO"}

InWindow(date) ==
    \/ date[2] = 12 /\ date[3] \in {29, 30, 31}
    \/ date[2] = 1 /\ date[3] \in {1, 2, 3}

\* C9: a row is labelled iff its date is Dec 29, 30, 31 or Jan 1, 2, 3 of any
\* year; two labelled rows bear the same label iff they fall on the same day of
\* the year; Jan 1 is "4. NOWY ROK"; the New Year summary has one line per label
\* borne by a row, averaged over the rows of that day alone, so a row of Jan 4
\* contributes to none.
C9_NewYearWindow ==
    pc = "agg_done" =>
        /\ \A r \in adf : r.NewYear_Label # "None" <=> InWindow(r.time)
        /\ \A r1, r2 \in adf :
              (InWindow(r1.time) /\ InWindow(r2.time)) =>
                  (r1.NewYear_Label = r2.NewYear_Label <=>
                       (r1.time[2] = r2.time[2] /\ r1.time[3] = r2.time[3]))
        /\ \A r \in adf : (r.time[2] = 1 /\ r.time[3] = 1) => r.NewYear_Label = "4. NOWY ROK"
        /\ {s.NewYear_Label : s \in new_year_stats} =
               {r.NewYear_Label : r \in {q \in adf : InWindow(q.time)}}
        /\ \A s \in new_year_stats :
              s.pm10 = pm10_mean({r \in adf : InWindow(r.time)
                                                  /\ r.NewYear_Label = s.NewYear_Label})

\* C9 witness: the input holds 2020-01-01 and 2020-01-04 and the summary is the
\* single line of New Year's Day, with the value of that row.
C9_Witness ==
    /\ pc = "agg_done"
    /\ \E r \in adf : r.time = <<2020, 1, 4>> /\ r.pm10 = <<40>>
    /\ \E r \in adf : r.time = <<2020, 1, 1>> /\ r.pm10 = <<60>>
    /\ new_year_stats = {[NewYear_Label |-> "4. NOWY ROK", pm10 |-> <<60, 1>>]}

Ranked == pc \in {"agg_bins", "agg_scenario", "agg_newyear", "agg_done"}
DaysOver50(c) == Cardinality({r \in adf : r.city = c /\ ~IsNaN(r.pm10) /\ r.pm10[1] > 50})
SmogCities == {r.city : r \in {q \in adf : DaysOver50(q.city) > 0}}
RankedCities == {city_stats[i].city : i \in 1..Len(city_stats)}

\* C10: the ranking has one line per city, at most 10 lines, and exactly 10 when
\* more than 10 cities have a day above 50; the count of a line is the number of
\* the city's days with PM10 strictly above 50, and is at least 1; counts never
\* increase down the list; a city left out has a count no larger than any count
\* in the list.
C10_TopTenRanking ==
    Ranked =>
        /\ Len(city_stats) <= 10
        /\ Len(city_stats) = (IF Cardinality(SmogCities) < 10 THEN Cardinality(SmogCities) ELSE 10)
        /\ \A i \in 1..Len(city_stats) :
              /\ city_stats[i].Dni_Smogowe = DaysOver50(city_stats[i].city)
              /\ city_stats[i].Dni_Smogowe >= 1
        /\ \A i, j \in 1..Len(city_stats) :
              /\ i < j => city_stats[i].Dni_Smogowe >= city_stats[j].Dni_Smogowe
              /\ city_stats[i].city = city_stats[j].city => i = j
        /\ \A c \in SmogCities \ RankedCities :
              \A i \in 1..Len(city_stats) : DaysOver50(c) <= city_stats[i].Dni_Smogowe

\* C10 witness: 11 cities have smog days, one of them fewer than all others; the
\* ranking has 10 lines and that city is the one left out.
C10_Witness ==
    /\ Ranked
    /\ Cardinality(SmogCities) = 11
    /\ Len(city_stats) = 10
    /\ \E c \in SmogCities \ RankedCities :
          \A i \in 1..10 : DaysOver50(c) < city_stats[i].Dni_Smogowe

====
